---- MODULE Spec2Model ----
(***************************************************************************)
(* Order-modification pipeline of hu6_ModPedido.py: the ModEvent priority  *)
(* queue, OrderRepository.apply_modification_atomic on the shared SQLite   *)
(* table `orders`, the retry loop of ModService._worker_loop, the two      *)
(* notification buses and ModService._finish.                              *)
(*                                                                         *)
(* Conventions.  Time is in milliseconds.  A Python string is a sequence   *)
(* of tokens, each token a blank " " or a word, so that str.strip() is     *)
(* computed and not assumed.  Optional[T] is <<>> for None and <<v>> for a *)
(* value v.  confirmed_at is stored as the database stores it, in whole    *)
(* seconds ('%Y-%m-%d %H:%M:%S'), and converted by to_ts.                  *)
(*                                                                         *)
(* Specifications.  Spec is the worker over every kind of row; in it the   *)
(* queue returns any event of least sort_index.  SpecUnchecked is Spec     *)
(* with producers that send values outside the closed sets.  SpecWindow is *)
(* Spec over rows whose edit window closes during the run.  SpecQueue is   *)
(* the queue alone, with the order of ModEvent.__lt__ and the list         *)
(* operations of heapq as the C implementation performs them.  SpecConfirm *)
(* is Spec beside confirm_order of hu2_RegistroAutoCocina.py.  SpecStop is *)
(* the worker with stop() and the sentinel, SpecStopFair the same with the *)
(* worker thread scheduled fairly.  SpecNamed is Spec with requests that   *)
(* carry a customer name.                                                  *)
(***************************************************************************)
EXTENDS Integers, Sequences, FiniteSets, TLC

VARIABLES
    orders,      \* committed rows of table orders: id -> row
    dbLock,      \* holder of the SQLite file lock: "free", "worker", "other"
    pending,     \* rows written by the worker's open transaction, not yet committed
    tx_now,      \* time.time() as read inside the open transaction
    now,         \* wall clock, ms
    pq,          \* ModService.pq, the queued ModEvents
    nextReq,     \* number of ModEvents built so far (stands for req_id)
    stop_set,    \* ModService._stop
    stopper,     \* position of the thread that calls stop(): "idle", "put", "done"
    afterStop,   \* history: requests get returned to the worker while _stop was set
    pushed,      \* history: req_id of the events given to put, in call order
    popped,      \* history: req_id of the events get returned, in order
    lastPop,     \* history: the list before the latest get, and what get returned
    pc,          \* position of the worker thread
    ev,          \* the ModEvent being processed
    changes,     \* local `changes` of _worker_loop
    attempt,     \* loop variable `attempt`
    backoff,     \* local `backoff`, ms
    sync_ok,     \* local `sync_ok`
    t0,          \* local `t0`, time.time() read after the pop
    metrics,     \* ModService.metrics, the dict object itself
    log,         \* number of records logger.info wrote in _finish, by tx_id
    recorded,    \* history: sum of the latencies _finish measured
    handed,      \* history: contents of the dict at the latest two ui_metrics_update calls
    calls,       \* history: apply_modification_atomic calls made for ev
    sleeps,      \* history: delays slept for ev
    lateCall,    \* history: some call for ev found the edit window elapsed
    sinkCalls,   \* history: notify_update calls made for ev, in order
    pre,         \* history: table contents when ev was popped
    applied,     \* history: a call for ev committed its UPDATE and returned True
    expiredAsleep, \* history: the edit window elapsed during a backoff sleep for ev
    last         \* history: what _finish recorded for the latest request

storeVars  == <<orders, dbLock, pending, tx_now>>
stopVars   == <<stop_set, stopper, afterStop>>
queueVars  == <<pq, nextReq, stopVars, pushed, popped, lastPop>>
localVars  == <<ev, changes, attempt, backoff, sync_ok, t0>>
outVars    == <<metrics, log, recorded, handed>>
histVars   == <<calls, sleeps, lateCall, sinkCalls, pre, applied, expiredAsleep, last>>
vars == <<storeVars, now, queueVars, pc, localVars, outVars, histVars>>

(***************************************************************************)
(* Program constants                                                       *)
(***************************************************************************)
EDIT_WINDOW_SECONDS == 300
MAX_RETRIES == 3
INITIAL_BACKOFF_MS == 250
BUSY_TIMEOUT_S == 10
SENTINEL_QTY == 9999

(***************************************************************************)
(* Bounds of the model                                                     *)
(***************************************************************************)
MaxQueue == 2        \* events waiting in pq at a time
MaxEvents == 2       \* events built by producers in a run
MaxTicks == 1        \* clock steps taken outside the worker's own sleeps
MaxPuts == 3         \* events put in a run of the queue specification

TickMs == INITIAL_BACKOFF_MS

(***************************************************************************)
(* Values                                                                  *)
(***************************************************************************)
None == <<>>
Some(v) == <<v>>

Blank == " "
Str(w) == <<w>>

RECURSIVE LStrip(_)
LStrip(s) == IF s # <<>> /\ Head(s) = Blank THEN LStrip(Tail(s)) ELSE s

RECURSIVE RStrip(_)
RStrip(s) == IF s # <<>> /\ s[Len(s)] = Blank THEN RStrip(SubSeq(s, 1, Len(s) - 1)) ELSE s

Strip(s) == RStrip(LStrip(s))

\* truth value of an Optional[str]: None and "" are falsy
Truthy(o) == o # None /\ o[1] # <<>>

States == {"draft", "confirmed", "cooking", "done", "cancelled"}
MutableFields == {"client_name", "product", "size", "qty", "payment_method"}

valid_products == {Str("pepperoni"), Str("hawaiana")}
valid_sizes == {Str("personal"), Str("mediana"), Str("grande")}
valid_pay == {Str("efectivo"), Str("tarjeta"), Str("transferencia")}

\* now_str: the clock formatted to whole seconds
now_str(t) == t \div 1000

\* to_ts: a stored timestamp back to the clock's unit; None stays None
to_ts(dt) == IF dt = None THEN None ELSE Some(dt[1] * 1000)

EditWindowMs == EDIT_WINDOW_SECONDS * 1000

(***************************************************************************)
(* ModEvent                                                                *)
(***************************************************************************)
\* ModEvent.__post_init__
sort_index(urgent, new_qty) ==
    LET qty == IF new_qty # None /\ new_qty[1] > 0 THEN new_qty[1] ELSE SENTINEL_QTY
        prio == IF urgent THEN 0 ELSE 1
    IN  <<prio, qty>>

ModEvent(urgent, order_id, name, product, size, qty, pay, req) ==
    [sort_index |-> sort_index(urgent, qty),
     urgent |-> urgent,
     order_id |-> order_id,
     new_client_name |-> name,
     new_product |-> product,
     new_size |-> size,
     new_qty |-> qty,
     new_payment_method |-> pay,
     req_id |-> req]

NoEvent == ModEvent(FALSE, 0, None, None, None, None, None, 0)

\* tuple order on sort_index
KeyLess(a, b) ==
    \/ a.sort_index[1] < b.sort_index[1]
    \/ a.sort_index[1] = b.sort_index[1] /\ a.sort_index[2] < b.sort_index[2]

\* positions of pq that PriorityQueue.get can return: no queued event has a
\* smaller sort_index.  Among events of equal sort_index the generated
\* __lt__ goes on to the other fields, down to the random req_id; every
\* such event is a possible result here.  The exact order, and the
\* comparisons that raise, are in Lt and heappop below.
Smallest(q) == {i \in DOMAIN q : \A j \in DOMAIN q : ~KeyLess(q[j], q[i])}

RemoveAt(q, i) == SubSeq(q, 1, i - 1) \o SubSeq(q, i + 1, Len(q))

(***************************************************************************)
(* The order dataclass(order=True) gives ModEvent, and heapq               *)
(***************************************************************************)
\* str order on the words the model uses, blank first
Words == <<" ", "ana", "bitcoin", "bob", "efectivo", "familiar", "grande", "hawaiana",
           "mediana", "pepperoni", "personal", "tarjeta", "transferencia",
           "vegetarian", "zoe">>

Rank(w) == CHOOSE i \in DOMAIN Words : Words[i] = w

RECURSIVE StrLess(_, _)
StrLess(s, t) ==
    IF t = <<>> THEN FALSE
    ELSE IF s = <<>> THEN TRUE
    ELSE IF Head(s) = Head(t) THEN StrLess(Tail(s), Tail(t))
    ELSE Rank(Head(s)) < Rank(Head(t))

\* the compared fields, in declaration order (requested_at comes after the
\* unique req_id and is never reached)
CompareFields == <<"sort_index", "urgent", "order_id", "new_client_name", "new_product",
                   "new_size", "new_qty", "new_payment_method", "req_id">>

\* the outcome of x < y: "lt" for True, "ge" for False, or "TypeError"
Outcome(b) == IF b THEN "lt" ELSE "ge"

\* x < y for two unequal values of field f
FieldLess(f, x, y) ==
    CASE f = "sort_index" -> Outcome(x[1] < y[1] \/ (x[1] = y[1] /\ x[2] < y[2]))
      [] f = "urgent" -> Outcome(~x /\ y)
      [] f \in {"order_id", "req_id"} -> Outcome(x < y)
      [] f = "new_qty" ->
            IF x = None \/ y = None THEN "TypeError" ELSE Outcome(x[1] < y[1])
      [] OTHER ->
            IF x = None \/ y = None THEN "TypeError" ELSE Outcome(StrLess(x[1], y[1]))

\* ModEvent.__lt__: the tuples of fields are compared at the first position
\* where they are not equal
Lt(a, b) ==
    LET diff == {k \in DOMAIN CompareFields : a[CompareFields[k]] # b[CompareFields[k]]} IN
    IF diff = {} THEN "ge"
    ELSE LET k == CHOOSE i \in diff : \A j \in diff : i <= j
             f == CompareFields[k]
         IN  FieldLess(f, a[f], b[f])

Swap(h, i, j) == [h EXCEPT ![i] = h[j], ![j] = h[i]]

\* _heapq siftdown: the item at pos moves towards startpos while it is less
\* than its parent; a comparison that raises leaves the list as it is then.
\* (The list and the position are bound by the set constructor so that each
\* step works on values.)
RECURSIVE siftdown(_, _, _)
siftdown(heap, startpos, at) ==
    LET step(h, pos) ==
            IF pos <= startpos THEN [heap |-> h, raised |-> FALSE]
            ELSE LET parentpos == pos \div 2
                     c == Lt(h[pos], h[parentpos])
                 IN  IF c = "TypeError" THEN [heap |-> h, raised |-> TRUE]
                     ELSE IF c = "lt"
                     THEN siftdown(Swap(h, pos, parentpos), startpos, parentpos)
                     ELSE [heap |-> h, raised |-> FALSE]
    IN  CHOOSE r \in {step(h, pos) : h \in {heap}, pos \in {at}} : TRUE

\* _heapq siftup: the smaller child moves up until a leaf is reached, then
\* the item that went down is sifted back towards startpos
RECURSIVE siftup_from(_, _, _)
siftup_from(heap, startpos, at) ==
    LET step(h, pos) ==
            LET childpos == 2 * pos IN
            IF childpos > Len(h) THEN siftdown(h, startpos, pos)
            ELSE LET c == IF childpos + 1 <= Len(h)
                          THEN Lt(h[childpos], h[childpos + 1]) ELSE "lt"
                 IN  IF c = "TypeError" THEN [heap |-> h, raised |-> TRUE]
                     ELSE LET child == IF c = "lt" THEN childpos ELSE childpos + 1
                          IN  siftup_from(Swap(h, pos, child), startpos, child)
    IN  CHOOSE r \in {step(h, pos) : h \in {heap}, pos \in {at}} : TRUE

siftup(h, pos) == siftup_from(h, pos, pos)

\* heapq.heappush: append, then siftdown from the new leaf
heappush(h, item) == siftdown(Append(h, item), 1, Len(h) + 1)

\* heapq.heappop: the last item replaces the root, then siftup; when a
\* comparison raises nothing is returned and the former root is gone
heappop(h) ==
    LET n == Len(h)
        rest == SubSeq(h, 1, n - 1)
    IN  IF n = 1 THEN [item |-> Some(h[1]), heap |-> <<>>, raised |-> FALSE]
        ELSE LET r == siftup([rest EXCEPT ![1] = h[n]], 1)
             IN  [item |-> IF r.raised THEN None ELSE Some(h[1]),
                  heap |-> r.heap, raised |-> r.raised]

NoPop == [before |-> <<>>, item |-> None, raised |-> FALSE]

(***************************************************************************)
(* OrderRepository                                                         *)
(***************************************************************************)
Row(name, product, size, qty, pay, state, created, confirmed) ==
    [client_name |-> name, product |-> product, size |-> size, qty |-> qty,
     payment_method |-> pay, state |-> state, created_at |-> created,
     confirmed_at |-> confirmed]

\* fetch_one: the committed row, or None
fetch_one(db, order_id) == IF order_id \in DOMAIN db THEN Some(db[order_id]) ELSE None

\* WindowPassed that tests only for a missing timestamp
WindowPassed_OnlyNone(ts, t) == ts = None

\* WindowPassed with the boundary excluded
WindowPassed_AtBoundary(ts, t) == ts = None \/ (t - ts[1]) >= EditWindowMs

\* the edit-window test of lines 178 and 315
WindowPassed(ts, t) == ts = None \/ (t - ts[1]) > EditWindowMs

\* Rejection without the test of line 181
Rejection_NoStateGuard(db, order_id, t) ==
    LET row == fetch_one(db, order_id) IN
    IF row = None THEN "not_found"
    ELSE IF row[1].confirmed_at = None THEN "unconfirmed"
    ELSE IF WindowPassed(to_ts(row[1].confirmed_at), t) THEN "expired"
    ELSE "ok"

\* the guards of apply_modification_atomic, in the order of the code:
\* the reason the call rolls back, or "ok"
Rejection(db, order_id, t) ==
    LET row == fetch_one(db, order_id) IN
    IF row = None THEN "not_found"
    ELSE IF row[1].confirmed_at = None THEN "unconfirmed"
    ELSE IF WindowPassed(to_ts(row[1].confirmed_at), t) THEN "expired"
    ELSE IF row[1].state \in {"cancelled", "cooking", "done"} THEN "state"
    ELSE "ok"

\* the fields the dynamic UPDATE sets
Sets(ch) == {f \in MutableFields : f \in DOMAIN ch /\ ch[f] # None}

\* UpdateStmt writing one column only
UpdateStmt_OneColumn(row, ch) ==
    LET first == CHOOSE f \in Sets(ch) : TRUE IN
    [f \in DOMAIN row |-> IF f = first THEN ch[f][1] ELSE row[f]]

\* UpdateStmt that also rewrites the lifecycle state
UpdateStmt_SetsState(row, ch) ==
    [f \in DOMAIN row |->
        IF f \in Sets(ch) THEN ch[f][1]
        ELSE IF f = "state" THEN "confirmed"
        ELSE row[f]]

\* UpdateStmt that also stamps the row with each edit
UpdateStmt_StampsRow(row, ch) ==
    [f \in DOMAIN row |->
        IF f \in Sets(ch) THEN ch[f][1]
        ELSE IF f = "created_at" THEN row[f] + 1
        ELSE row[f]]

\* UPDATE orders SET <sets> WHERE id=?
UpdateStmt(row, ch) ==
    [f \in DOMAIN row |-> IF f \in Sets(ch) THEN ch[f][1] ELSE row[f]]

(***************************************************************************)
(* ModService                                                              *)
(***************************************************************************)
\* the change set built from the event, lines 278-284
BuildChanges(e) ==
    LET present ==
            {f \in MutableFields :
                \/ f = "client_name" /\ Truthy(e.new_client_name)
                \/ f = "product" /\ Truthy(e.new_product)
                \/ f = "size" /\ Truthy(e.new_size)
                \/ f = "qty" /\ e.new_qty # None /\ e.new_qty[1] > 0
                \/ f = "payment_method" /\ Truthy(e.new_payment_method)}
    IN  [f \in present |->
            CASE f = "client_name" -> Some(Strip(e.new_client_name[1]))
              [] f = "product" -> Some(Strip(e.new_product[1]))
              [] f = "size" -> Some(Strip(e.new_size[1]))
              [] f = "qty" -> Some(e.new_qty[1])
              [] f = "payment_method" -> Some(Strip(e.new_payment_method[1]))]

\* LocalCheck without the tests of lines 293-298
LocalCheck_ProductOnly(ch) ==
    IF "product" \in DOMAIN ch /\ ch["product"][1] \notin valid_products THEN "invalid_product"
    ELSE "ok"

\* the local validation, lines 286-298: the reason, or "ok"
LocalCheck(ch) ==
    IF "product" \in DOMAIN ch /\ ch["product"][1] \notin valid_products THEN "invalid_product"
    ELSE IF "size" \in DOMAIN ch /\ ch["size"][1] \notin valid_sizes THEN "invalid_size"
    ELSE IF "payment_method" \in DOMAIN ch /\ ch["payment_method"][1] \notin valid_pay
         THEN "invalid_payment"
    ELSE "ok"

\* AfterFailure without the window test of line 315
AfterFailure_NoWindowTest(db, order_id, t) ==
    LET current == fetch_one(db, order_id) IN
    IF current = None \/ current[1].confirmed_at = None THEN "MOD_FAIL"
    ELSE "retry"

\* what the loop does after a call returned False, lines 309-321
AfterFailure(db, order_id, t) ==
    LET current == fetch_one(db, order_id) IN
    IF current = None \/ current[1].confirmed_at = None THEN "MOD_FAIL"
    ELSE IF WindowPassed(to_ts(current[1].confirmed_at), t) THEN "TIME_EXPIRED"
    ELSE "retry"

\* NotifiedCode that ignores sync_ok
NotifiedCode_AlwaysOk(ok) == "MOD_OK"

\* the code after the notifications, lines 341-342
NotifiedCode(ok) == IF ok THEN "MOD_OK" ELSE "SYNC_FAIL"

Codes == {"MOD_OK", "TIME_EXPIRED", "SYNC_FAIL", "MOD_FAIL"}

\* avg_latency_ms is a float; it is kept here as an exact fraction <<p, q>>
\* in lowest terms, so that equality with a mean is not a matter of rounding
RECURSIVE Gcd(_, _)
Gcd(a, b) == IF b = 0 THEN a ELSE Gcd(b, a % b)

Frac(p, q) == LET g == Gcd(p, q) IN <<p \div g, q \div g>>

FracEq(x, y) == x[1] * y[2] = y[1] * x[2]

\* ModService.__init__, lines 239-246
InitMetrics ==
    [c \in Codes \cup {"processed"} |-> 0] @@ ("avg_latency_ms" :> Frac(0, 1))

\* Record that counts the request twice in processed
Record_CountsTwice(m, code) ==
    [m EXCEPT !["processed"] = @ + 2, ![code] = @ + 1]

\* _finish, the counters of lines 348-349
Record(m, code) ==
    [m EXCEPT !["processed"] = @ + 1, ![code] = @ + 1]

\* _update_latency, lines 259-262, on the dict as _finish left it
update_latency(m, ms) ==
    LET n == m["processed"]
        avg == m["avg_latency_ms"]
    IN  [m EXCEPT !["avg_latency_ms"] = Frac(avg[1] * n + ms * avg[2], avg[2] * (n + 1))]

NoLast == [req_id |-> 0, order_id |-> 0, code |-> "MOD_FAIL", reason |-> "none",
           changes |-> <<>>, calls |-> 0, sleeps |-> <<>>, lateCall |-> FALSE,
           pre |-> <<>>, sinkCalls |-> <<>>, applied |-> FALSE,
           expiredAsleep |-> FALSE]

\* _finish with latency ms (time.time() - t0, line 347): the counters, the
\* average, the log record and the call of the observer with self.metrics;
\* the worker goes back to the head of its loop
Finish(e, code, reason, ch, nCalls, slept, late, sunk, asleep, ms) ==
    /\ metrics' = update_latency(Record(metrics, code), ms)
    /\ recorded' = recorded + ms
    /\ handed' = IF handed = <<>> THEN <<metrics'>> ELSE <<handed[Len(handed)], metrics'>>
    /\ log' = [log EXCEPT ![e.req_id] = @ + 1]
    /\ last' = [req_id |-> e.req_id, order_id |-> e.order_id, code |-> code,
                reason |-> reason, changes |-> ch, calls |-> nCalls,
                sleeps |-> slept, lateCall |-> late, pre |-> pre,
                sinkCalls |-> sunk, applied |-> applied, expiredAsleep |-> asleep]
    /\ pc' = "idle"
    /\ ev' = NoEvent
    /\ changes' = <<>>
    /\ attempt' = 0
    /\ backoff' = 0
    /\ sync_ok' = TRUE
    /\ t0' = 0
    /\ calls' = 0
    /\ sleeps' = <<>>
    /\ lateCall' = FALSE
    /\ sinkCalls' = <<>>
    /\ pre' = orders
    /\ applied' = FALSE
    /\ expiredAsleep' = FALSE

\* history: a call made more than EDIT_WINDOW_SECONDS after confirmed_at
CalledLate(db, order_id, t) ==
    /\ order_id \in DOMAIN db
    /\ db[order_id].confirmed_at # None
    /\ t > (db[order_id].confirmed_at[1] + EDIT_WINDOW_SECONDS) * 1000

\* history: the edit window of the order is open at ta and elapsed at tb
ElapsedBetween(db, order_id, ta, tb) ==
    /\ ~CalledLate(db, order_id, ta)
    /\ CalledLate(db, order_id, tb)

(***************************************************************************)
(* Initial state: the table as the worker finds it, an empty queue         *)
(***************************************************************************)
\* The table is shared with the other programs of the repository
\* (hu6_ModPedido.py lines 12-13); the rows it holds are inputs.  Order 1,
\* the target of the requests, is missing or takes every lifecycle state,
\* and is unconfirmed, confirmed exactly EDIT_WINDOW_SECONDS ago, or
\* confirmed a second ago; order 2 is freshly confirmed.
StartMs == EditWindowMs + 1000

ConfirmedInputs == {None, Some(1), Some(EDIT_WINDOW_SECONDS)}

OtherRow ==
    Row(Str("bob"), Str("hawaiana"), Str("grande"), 2, Str("tarjeta"),
        "confirmed", 0, Some(EDIT_WINDOW_SECONDS))

InitOrders ==
    {[i \in {1, 2} |->
        IF i = 1
        THEN Row(Str("ana"), Str("pepperoni"), Str("personal"), 1, Str("efectivo"), s, 0, c)
        ELSE OtherRow]
     : s \in States, c \in ConfirmedInputs}
    \cup {[i \in {2} |-> OtherRow]}

\* the state after ModService.__init__, over a table of the given set
InitWith(tables) ==
    /\ orders \in tables
    /\ dbLock = "free"
    /\ pending = {}
    /\ tx_now = 0
    /\ now = StartMs
    /\ pq = <<>>
    /\ nextReq = 0
    /\ stop_set = FALSE
    /\ stopper = "idle"
    /\ afterStop = 0
    /\ pushed = <<>>
    /\ popped = <<>>
    /\ lastPop = NoPop
    /\ pc = "idle"
    /\ ev = NoEvent
    /\ changes = <<>>
    /\ attempt = 0
    /\ backoff = 0
    /\ sync_ok = TRUE
    /\ t0 = 0
    /\ metrics = InitMetrics
    /\ log = [r \in 1..MaxEvents |-> 0]
    /\ recorded = 0
    /\ handed = <<>>
    /\ sinkCalls = <<>>
    /\ calls = 0
    /\ sleeps = <<>>
    /\ lateCall = FALSE
    /\ pre = orders
    /\ applied = FALSE
    /\ expiredAsleep = FALSE
    /\ last = NoLast

Init == InitWith(InitOrders)

(***************************************************************************)
(* Producers and environment                                               *)
(***************************************************************************)
UrgentInputs == {FALSE}
OrderIdInputs == {1}
NameInputs == {None}
ProductInputs == {None, Some(<<Blank, "hawaiana">>), Some(Str("vegetarian"))}
SizeInputs == {None}
QtyInputs == {None, Some(3)}
PayInputs == {None}

\* ModService.enqueue with an event a producer built
Enqueue ==
    /\ nextReq < MaxEvents
    /\ Len(pq) < MaxQueue
    /\ \E u \in UrgentInputs, id \in OrderIdInputs, n \in NameInputs,
          p \in ProductInputs, s \in SizeInputs, q \in QtyInputs, m \in PayInputs :
            pq' = Append(pq, ModEvent(u, id, n, p, s, q, m, nextReq + 1))
    /\ nextReq' = nextReq + 1
    /\ UNCHANGED <<storeVars, now, stopVars, pushed, popped, lastPop, pc, localVars,
                   outVars, histVars>>

\* the clock advances
Tick ==
    /\ now + TickMs <= StartMs + MaxTicks * TickMs
    /\ now' = now + TickMs
    /\ UNCHANGED <<storeVars, queueVars, pc, localVars, outVars, histVars>>

\* another connection to data/app.db takes the database lock; the worker
\* meets the lock only at BEGIN EXCLUSIVE and in fetch_one
OtherLock ==
    /\ dbLock = "free"
    /\ pc \in {"begin", "fetch"}
    /\ dbLock' = "other"
    /\ UNCHANGED <<orders, pending, tx_now, now, queueVars, pc, localVars, outVars, histVars>>

\* ... and releases it
OtherUnlock ==
    /\ dbLock = "other"
    /\ dbLock' = "free"
    /\ UNCHANGED <<orders, pending, tx_now, now, queueVars, pc, localVars, outVars, histVars>>

(***************************************************************************)
(* The worker thread, ModService._worker_loop                              *)
(***************************************************************************)
\* Received without the test of line 270
Received_NoSentinelTest(e) ==
    LET ch == BuildChanges(e)
        chk == LocalCheck(ch)
    IN  IF chk # "ok"
        THEN Finish(e, "MOD_FAIL", chk, ch, 0, <<>>, FALSE, <<>>, FALSE, 0)
        ELSE /\ pc' = "begin"
             /\ ev' = e
             /\ changes' = ch
             /\ attempt' = 1
             /\ backoff' = INITIAL_BACKOFF_MS
             /\ sync_ok' = TRUE
             /\ t0' = now
             /\ calls' = 0
             /\ sleeps' = <<>>
             /\ lateCall' = FALSE
             /\ sinkCalls' = <<>>
             /\ pre' = orders
             /\ applied' = FALSE
             /\ expiredAsleep' = FALSE
             /\ UNCHANGED <<outVars, last>>

\* lines 270-301, once get has returned e: the sentinel test, t0, the change
\* set, the local checks
Received(e) ==
    LET ch == BuildChanges(e)
        chk == LocalCheck(ch)
    IN  IF e.order_id = -1
        THEN /\ pc' = "exited"
             /\ UNCHANGED <<localVars, outVars, histVars>>
        ELSE IF chk # "ok"
        THEN Finish(e, "MOD_FAIL", chk, ch, 0, <<>>, FALSE, <<>>, FALSE, 0)
        ELSE /\ pc' = "begin"
             /\ ev' = e
             /\ changes' = ch
             /\ attempt' = 1
             /\ backoff' = INITIAL_BACKOFF_MS
             /\ sync_ok' = TRUE
             /\ t0' = now
             /\ calls' = 0
             /\ sleeps' = <<>>
             /\ lateCall' = FALSE
             /\ sinkCalls' = <<>>
             /\ pre' = orders
             /\ applied' = FALSE
             /\ expiredAsleep' = FALSE
             /\ UNCHANGED <<outVars, last>>

\* lines 265-301: the loop test, the pop, and what follows it
Pop ==
    /\ pc = "idle"
    /\ ~stop_set
    /\ \E i \in Smallest(pq) :
        /\ pq' = RemoveAt(pq, i)
        /\ Received(pq[i])
    /\ UNCHANGED <<storeVars, now, nextReq, stopVars, pushed, popped, lastPop>>

\* apply_modification_atomic, lines 161-163: BEGIN EXCLUSIVE is granted
BeginExclusive ==
    /\ pc = "begin"
    /\ dbLock = "free"
    /\ dbLock' = "worker"
    /\ pc' = "tx"
    /\ calls' = calls + 1
    /\ UNCHANGED <<orders, pending, tx_now, now, queueVars, localVars, outVars,
                   sleeps, lateCall, sinkCalls, pre, applied, expiredAsleep, last>>

\* lines 112 and 163: the lock is not granted within the connection's
\* timeout; sqlite3.OperationalError leaves apply_modification_atomic and
\* _worker_loop, which catch nothing, and the thread ends
BeginExclusiveTimeout ==
    /\ pc = "begin"
    /\ dbLock = "other"
    /\ now' = now + BUSY_TIMEOUT_S * 1000
    /\ pc' = "crashed"
    /\ calls' = calls + 1
    /\ UNCHANGED <<storeVars, queueVars, localVars, outVars, sleeps, lateCall,
                   sinkCalls, pre, applied, expiredAsleep, last>>

\* lines 164-197: SELECT, the guards, the UPDATE inside the transaction
TxRun ==
    /\ pc = "tx"
    /\ lateCall' = (lateCall \/ CalledLate(orders, ev.order_id, now))
    /\ IF Rejection(orders, ev.order_id, now) = "ok" /\ Sets(changes) # {}
       THEN /\ pending' = {<<ev.order_id, UpdateStmt(orders[ev.order_id], changes)>>}
            /\ tx_now' = now
            /\ pc' = "commit"
            /\ UNCHANGED dbLock
       ELSE /\ pending' = {}
            /\ tx_now' = 0
            /\ dbLock' = "free"
            /\ pc' = "fetch"
    /\ UNCHANGED <<orders, now, queueVars, localVars, outVars, calls, sleeps,
                   sinkCalls, pre, applied, expiredAsleep, last>>

\* lines 198-199 and 305-307: COMMIT, return True
Commit ==
    /\ pc = "commit"
    /\ orders' = [i \in DOMAIN orders |->
                    IF \E w \in pending : w[1] = i
                    THEN (CHOOSE w \in pending : w[1] = i)[2]
                    ELSE orders[i]]
    /\ pending' = {}
    /\ tx_now' = 0
    /\ dbLock' = "free"
    /\ pc' = "kitchen"
    /\ applied' = TRUE
    /\ UNCHANGED <<now, queueVars, localVars, outVars, calls, sleeps, lateCall,
                   sinkCalls, pre, expiredAsleep, last>>

\* lines 309-318: the fresh read after a call that returned False
Fetch ==
    /\ pc = "fetch"
    /\ dbLock = "free"
    /\ LET r == AfterFailure(orders, ev.order_id, now) IN
        IF r = "retry"
        THEN /\ pc' = "sleep"
             /\ UNCHANGED <<localVars, outVars, histVars>>
        ELSE /\ Finish(ev, r,
                       IF r = "TIME_EXPIRED" THEN "edit_window_passed"
                       ELSE "not_found_or_unconfirmed",
                       changes, calls, sleeps, lateCall, <<>>, expiredAsleep, now - t0)
    /\ UNCHANGED <<storeVars, now, queueVars>>

\* lines 112 and 135: the read is not granted the lock within the timeout
FetchTimeout ==
    /\ pc = "fetch"
    /\ dbLock = "other"
    /\ now' = now + BUSY_TIMEOUT_S * 1000
    /\ pc' = "crashed"
    /\ UNCHANGED <<storeVars, queueVars, localVars, outVars, histVars>>

\* lines 320-327: the backoff sleep, then the next attempt or the end of the loop
Sleep ==
    /\ pc = "sleep"
    /\ now' = now + backoff
    /\ IF attempt < MAX_RETRIES
       THEN /\ attempt' = attempt + 1
            /\ backoff' = backoff * 2
            /\ sleeps' = Append(sleeps, backoff)
            /\ expiredAsleep' =
                    (expiredAsleep \/ ElapsedBetween(orders, ev.order_id, now, now + backoff))
            /\ pc' = "begin"
            /\ UNCHANGED <<ev, changes, sync_ok, t0, outVars, calls, lateCall, sinkCalls,
                           pre, applied, last>>
       ELSE Finish(ev, "MOD_FAIL", "none", changes, calls, Append(sleeps, backoff),
                   lateCall, <<>>,
                   expiredAsleep \/ ElapsedBetween(orders, ev.order_id, now, now + backoff),
                   now + backoff - t0)
    /\ UNCHANGED <<storeVars, queueVars>>

\* NotifyKitchen with both notifications under one try: a raise skips the client
NotifyKitchen_OneGuard ==
    /\ pc = "kitchen"
    /\ \E raises \in BOOLEAN :
        LET call == [sink |-> "kitchen", order_id |-> ev.order_id,
                     changes |-> changes, raised |-> raises]
        IN  IF raises
            THEN Finish(ev, "SYNC_FAIL", "none", changes, calls, sleeps, lateCall,
                        Append(sinkCalls, call), expiredAsleep, now - t0)
            ELSE /\ sync_ok' = TRUE
                 /\ sinkCalls' = Append(sinkCalls, call)
                 /\ pc' = "client"
                 /\ UNCHANGED <<ev, changes, attempt, backoff, t0, outVars, calls, sleeps,
                                lateCall, pre, applied, expiredAsleep, last>>
    /\ UNCHANGED <<storeVars, now, queueVars>>

\* lines 330-336: KitchenBus.notify_update, which may raise
NotifyKitchen ==
    /\ pc = "kitchen"
    /\ \E raises \in BOOLEAN :
        /\ sync_ok' = ~raises
        /\ sinkCalls' = Append(sinkCalls, [sink |-> "kitchen", order_id |-> ev.order_id,
                                            changes |-> changes, raised |-> raises])
    /\ pc' = "client"
    /\ UNCHANGED <<storeVars, now, queueVars, ev, changes, attempt, backoff, t0,
                   outVars, calls, sleeps, lateCall, pre, applied, expiredAsleep, last>>

\* NotifyClient whose except clause is the only one to decide the code
NotifyClient_ForgetsKitchen ==
    /\ pc = "client"
    /\ \E raises \in BOOLEAN :
        Finish(ev, NotifiedCode(~raises), "none", changes, calls, sleeps,
               lateCall,
               Append(sinkCalls, [sink |-> "client", order_id |-> ev.order_id,
                                  changes |-> changes, raised |-> raises]),
               expiredAsleep, now - t0)
    /\ UNCHANGED <<storeVars, now, queueVars>>

\* lines 337-344: ClientBus.notify_update, which may raise, then _finish
NotifyClient ==
    /\ pc = "client"
    /\ \E raises \in BOOLEAN :
        Finish(ev, NotifiedCode(sync_ok /\ ~raises), "none", changes, calls, sleeps,
               lateCall,
               Append(sinkCalls, [sink |-> "client", order_id |-> ev.order_id,
                                  changes |-> changes, raised |-> raises]),
               expiredAsleep, now - t0)
    /\ UNCHANGED <<storeVars, now, queueVars>>

Next ==
    \/ Enqueue
    \/ Tick
    \/ OtherLock
    \/ OtherUnlock
    \/ Pop
    \/ BeginExclusive
    \/ BeginExclusiveTimeout
    \/ TxRun
    \/ Commit
    \/ Fetch
    \/ FetchTimeout
    \/ Sleep
    \/ NotifyKitchen
    \/ NotifyClient

Spec == Init /\ [][Next]_vars

(***************************************************************************)
(* Requests with values outside the closed sets                            *)
(***************************************************************************)
\* what a producer other than the UI can put in a ModEvent (the UI's
\* comboboxes are read-only, lines 452-471)
BadProductInputs == {None, Some(Str("vegetarian"))}
BadSizeInputs == {None, Some(<<"familiar", Blank>>)}
BadPayInputs == {Some(<<Blank, "efectivo">>), Some(Str("bitcoin"))}

\* ModService.enqueue with such an event
EnqueueUnchecked ==
    /\ nextReq < MaxEvents
    /\ Len(pq) < MaxQueue
    /\ \E p \in BadProductInputs, s \in BadSizeInputs, m \in BadPayInputs :
            pq' = Append(pq, ModEvent(FALSE, 1, None, p, s, None, m, nextReq + 1))
    /\ nextReq' = nextReq + 1
    /\ UNCHANGED <<storeVars, now, stopVars, pushed, popped, lastPop, pc, localVars,
                   outVars, histVars>>

NextUnchecked ==
    \/ EnqueueUnchecked
    \/ Tick
    \/ OtherLock
    \/ OtherUnlock
    \/ Pop
    \/ BeginExclusive
    \/ BeginExclusiveTimeout
    \/ TxRun
    \/ Commit
    \/ Fetch
    \/ FetchTimeout
    \/ Sleep
    \/ NotifyKitchen
    \/ NotifyClient

SpecUnchecked == Init /\ [][NextUnchecked]_vars

(***************************************************************************)
(* Orders whose edit window closes while a request is retried              *)
(***************************************************************************)
\* Order 1 was confirmed so that its window closes at the start of the run
\* or one second later; it is confirmed or already cooking.
WindowConfirmedInputs == {Some(1), Some(2)}

WindowOrders ==
    {[i \in {1, 2} |->
        IF i = 1
        THEN Row(Str("ana"), Str("pepperoni"), Str("personal"), 1, Str("efectivo"), s, 0, c)
        ELSE OtherRow]
     : s \in {"confirmed", "cooking"}, c \in WindowConfirmedInputs}

InitWindow == InitWith(WindowOrders)

SpecWindow == InitWindow /\ [][Next]_vars

(***************************************************************************)
(* The priority queue alone: producers put, the worker gets                *)
(***************************************************************************)
\* The table plays no part; pq is the list inside queue.PriorityQueue, in
\* heap order.  What the worker does with an event between two gets is the
\* matter of Spec and does not touch the queue.
InitQueue == InitWith({[i \in {2} |-> OtherRow]})

QueueUrgentInputs == BOOLEAN

\* new_client_name and new_qty of the events put: nothing, a quantity, a
\* quantity above the 9999 of line 99, a name with a quantity
QueueFieldInputs ==
    {<<None, None>>, <<None, Some(2)>>, <<None, Some(10000)>>, <<Some(Str("zoe")), Some(2)>>}

\* a producer builds a ModEvent, whose req_id is a fresh uuid4, and calls
\* ModService.enqueue; heappush may raise in the producer, the event stays
\* in the list
Put ==
    /\ nextReq < MaxPuts
    /\ \E u \in QueueUrgentInputs, f \in QueueFieldInputs,
          id \in (1..MaxPuts) \ {pushed[k] : k \in DOMAIN pushed} :
            /\ pq' = heappush(pq, ModEvent(u, 1, f[1], None, None, f[2], None, id)).heap
            /\ pushed' = Append(pushed, id)
    /\ nextReq' = nextReq + 1
    /\ UNCHANGED <<storeVars, now, stopVars, popped, lastPop, pc, localVars, outVars,
                   histVars>>

\* line 267: self.pq.get; a comparison that raises inside heappop ends the
\* worker thread
Get ==
    /\ pc = "idle"
    /\ ~stop_set
    /\ pq # <<>>
    /\ LET r == heappop(pq) IN
        /\ pq' = r.heap
        /\ lastPop' = [before |-> pq, item |-> r.item, raised |-> r.raised]
        /\ popped' = IF r.raised THEN popped ELSE Append(popped, r.item[1].req_id)
        /\ pc' = IF r.raised THEN "crashed" ELSE "idle"
    /\ UNCHANGED <<storeVars, now, nextReq, stopVars, pushed, localVars, outVars,
                   histVars>>

NextQueue ==
    \/ Put
    \/ Get

SpecQueue == InitQueue /\ [][NextQueue]_vars

(***************************************************************************)
(* SpecConfirm: Spec beside the confirmation screen of                     *)
(* hu2_RegistroAutoCocina.py, which writes the same table                  *)
(***************************************************************************)
\* order 1 as hu1 registered it, as hu2 confirmed it a second after the
\* start of the clock, or cancelled after that
ConfirmOrders ==
    {[i \in {1} |->
        Row(Str("ana"), Str("pepperoni"), Str("personal"), 1, Str("efectivo"), r[1], 0, r[2])]
     : r \in {<<"draft", None>>, <<"confirmed", Some(1)>>, <<"cancelled", Some(1)>>}}

InitConfirm == InitWith(ConfirmOrders)

\* hu2 OrderRepository.confirm_order at time t: the table after the UPDATE
confirm_order(db, order_id, t) ==
    [i \in DOMAIN db |->
        IF i = order_id /\ db[i].state # "cancelled"
        THEN [db[i] EXCEPT !.state = "confirmed", !.confirmed_at = Some(now_str(t))]
        ELSE db[i]]

\* hu2 _confirm_selected: the operator confirms the order selected in the
\* list; the UPDATE needs the database lock
ConfirmOrder ==
    /\ dbLock = "free"
    /\ \E id \in DOMAIN orders : orders' = confirm_order(orders, id, now)
    /\ UNCHANGED <<dbLock, pending, tx_now, now, queueVars, pc, localVars, outVars,
                   histVars>>

NextConfirm ==
    \/ ConfirmOrder
    \/ Next

SpecConfirm == InitConfirm /\ [][NextConfirm]_vars

(***************************************************************************)
(* SpecStop: the worker with stop() and the sentinel                       *)
(***************************************************************************)
\* The loop test of line 265 and the get of line 267 are separate steps of
\* the worker, and the two statements of stop() separate steps of its
\* caller.  pq is the list inside queue.PriorityQueue, in heap order.  No
\* other connection holds the database lock here and the clock moves with
\* the worker's own sleeps; lock timeouts are the matter of Spec.
StopOrders ==
    {[i \in {1} |->
        Row(Str("ana"), Str("pepperoni"), Str("personal"), 1, Str("efectivo"),
            "confirmed", 0, Some(EDIT_WINDOW_SECONDS))]}

InitStop == InitWith(StopOrders)

\* line 252: the event stop() puts; its req_id is a uuid4 like any other
Sentinel(req) == ModEvent(FALSE, -1, None, None, None, None, None, req)

\* urgent, order_id and new_qty of the events producers put: an urgent
\* request with a quantity, a request with no field, and a request with no
\* field whose order id is -1
StopEventInputs == {<<TRUE, 1, Some(3)>>, <<FALSE, 1, None>>, <<FALSE, -1, None>>}

\* the req_id of the sentinel sorts before or after those of the producers
SentinelReqInputs == {0, MaxEvents + 1}

\* ModService.enqueue, line 257
EnqueueStop ==
    /\ nextReq < MaxEvents
    /\ \E f \in StopEventInputs,
          id \in (1..MaxEvents) \ {pushed[k] : k \in DOMAIN pushed} :
            /\ pq' = heappush(pq, ModEvent(f[1], f[2], None, None, None, f[3], None, id)).heap
            /\ pushed' = Append(pushed, id)
    /\ nextReq' = nextReq + 1
    /\ UNCHANGED <<storeVars, now, stopVars, popped, lastPop, pc, localVars, outVars,
                   histVars>>

\* stop(), line 250: self._stop.set()
StopSet ==
    /\ stopper = "idle"
    /\ stop_set' = TRUE
    /\ stopper' = "put"
    /\ UNCHANGED <<storeVars, now, pq, nextReq, afterStop, pushed, popped, lastPop, pc,
                   localVars, outVars, histVars>>

\* stop(), lines 251-254: put_nowait of the sentinel; the queue has no
\* maxsize, and an exception of the put is swallowed
StopPut ==
    /\ stopper = "put"
    /\ \E id \in SentinelReqInputs :
        /\ pq' = heappush(pq, Sentinel(id)).heap
        /\ pushed' = Append(pushed, id)
    /\ stopper' = "done"
    /\ UNCHANGED <<storeVars, now, nextReq, stop_set, afterStop, popped, lastPop, pc,
                   localVars, outVars, histVars>>

\* WhileTest of a loop that never reads _stop
WhileTest_IgnoresStop ==
    /\ pc = "idle"
    /\ pc' = "get"
    /\ UNCHANGED <<storeVars, now, queueVars, localVars, outVars, histVars>>

\* line 265: while not self._stop.is_set()
WhileTest ==
    /\ pc = "idle"
    /\ pc' = IF stop_set THEN "exited" ELSE "get"
    /\ UNCHANGED <<storeVars, now, queueVars, localVars, outVars, histVars>>

\* lines 267-301: get returns an event, or a comparison raises inside
\* heappop and ends the thread
GetEvent ==
    /\ pc = "get"
    /\ pq # <<>>
    /\ \E r \in {heappop(pq)} :
        /\ pq' = r.heap
        /\ lastPop' = [before |-> pq, item |-> r.item, raised |-> r.raised]
        /\ popped' = IF r.raised THEN popped ELSE Append(popped, r.item[1].req_id)
        /\ IF r.raised
           THEN /\ pc' = "crashed"
                /\ UNCHANGED <<afterStop, localVars, outVars, histVars>>
           ELSE /\ Received(r.item[1])
                /\ afterStop' = IF stop_set /\ r.item[1].order_id # -1
                                THEN afterStop + 1 ELSE afterStop
    /\ UNCHANGED <<storeVars, now, nextReq, stop_set, stopper, pushed>>

\* lines 267-269: nothing arrives within the timeout of get, queue.Empty,
\* continue
GetEmpty ==
    /\ pc = "get"
    /\ pq = <<>>
    /\ pc' = "idle"
    /\ UNCHANGED <<storeVars, now, queueVars, localVars, outVars, histVars>>

\* the steps of the worker thread
Worker ==
    \/ WhileTest
    \/ GetEvent
    \/ GetEmpty
    \/ BeginExclusive
    \/ TxRun
    \/ Commit
    \/ Fetch
    \/ Sleep
    \/ NotifyKitchen
    \/ NotifyClient

NextStop ==
    \/ EnqueueStop
    \/ StopSet
    \/ StopPut
    \/ Worker

SpecStop == InitStop /\ [][NextStop]_vars

\* The worker is a thread of its own (line 248) and each of its blocking
\* calls returns: get has a timeout (line 267), the sleeps are finite and
\* no other connection holds the lock here.  It keeps taking steps.
SpecStopFair == SpecStop /\ WF_vars(Worker)

(***************************************************************************)
(* SpecNamed: requests that carry a customer name, over valid rows         *)
(***************************************************************************)
\* hu1_RegistroPedido.py, lines 114-116
VALID_PRODUCTS == {Str("pepperoni"), Str("hawaiana")}
VALID_SIZES == {Str("personal"), Str("mediana"), Str("grande")}
VALID_PAYMENTS == {Str("efectivo"), Str("tarjeta"), Str("transferencia")}

\* hu1 validate_dto on the fields of a row: None in the source, "ok" here,
\* when the row passes
validate_dto(dto) ==
    IF Strip(dto.client_name) = <<>> THEN "client_name"
    ELSE IF dto.product \notin VALID_PRODUCTS THEN "product"
    ELSE IF dto.size \notin VALID_SIZES THEN "size"
    ELSE IF dto.qty <= 0 THEN "qty"
    ELSE IF dto.payment_method \notin VALID_PAYMENTS THEN "payment_method"
    ELSE "ok"

\* new_client_name, new_product and new_qty of the events: a name of blanks
\* only, a name with a leading blank; a product outside the set; a quantity
\* of zero
NamedNameInputs == {None, Some(<<Blank>>), Some(<<Blank, "zoe">>)}
NamedProductInputs == {None, Some(Str("vegetarian"))}
NamedQtyInputs == {None, Some(0), Some(3)}

\* ModService.enqueue with such an event
EnqueueNamed ==
    /\ nextReq < MaxEvents
    /\ Len(pq) < MaxQueue
    /\ \E n \in NamedNameInputs, p \in NamedProductInputs, q \in NamedQtyInputs :
            pq' = Append(pq, ModEvent(FALSE, 1, n, p, None, q, None, nextReq + 1))
    /\ nextReq' = nextReq + 1
    /\ UNCHANGED <<storeVars, now, stopVars, pushed, popped, lastPop, pc, localVars,
                   outVars, histVars>>

NextNamed ==
    \/ EnqueueNamed
    \/ Tick
    \/ OtherLock
    \/ OtherUnlock
    \/ Pop
    \/ BeginExclusive
    \/ BeginExclusiveTimeout
    \/ TxRun
    \/ Commit
    \/ Fetch
    \/ FetchTimeout
    \/ Sleep
    \/ NotifyKitchen
    \/ NotifyClient

SpecNamed == InitStop /\ [][NextNamed]_vars

(***************************************************************************)
(* Properties                                                              *)
(***************************************************************************)
Finalized == last.req_id # 0
Terminal == {"cancelled", "cooking", "done"}
Target == orders[ev.order_id]
LastTargetExists == last.order_id \in DOMAIN orders
LastTarget == orders[last.order_id]

\* C1 (as claimed): when apply_modification_atomic has executed its UPDATE,
\* the order is in state 'confirmed' and the time the call read is within
\* EDIT_WINDOW_SECONDS of confirmed_at.
C1_OnlyConfirmedInWindow ==
    pc = "commit" =>
        /\ Target.state = "confirmed"
        /\ Target.confirmed_at # None
        /\ tx_now <= (Target.confirmed_at[1] + EDIT_WINDOW_SECONDS) * 1000

\* C2: a finalized request for which some call of apply_modification_atomic
\* was made more than EDIT_WINDOW_SECONDS after the order's confirmed_at has
\* outcome TIME_EXPIRED, whatever the order's state and the number of calls.
C2_LateUpdateExpires ==
    (Finalized /\ last.lateCall) => last.code = "TIME_EXPIRED"

C2_Witness ==
    /\ Finalized
    /\ last.lateCall
    /\ last.calls > 1
    /\ LastTargetExists
    /\ LastTarget.state \in Terminal

\* C3 (as claimed): a finalized request for an order in state cooking, done
\* or cancelled has outcome MOD_FAIL and left the order's fields unchanged.
C3_TerminalStateFails ==
    (Finalized /\ LastTargetExists /\ LastTarget.state \in Terminal) =>
        /\ last.code = "MOD_FAIL"
        /\ LastTarget = last.pre[last.order_id]

\* C3 (amended): such a request has outcome MOD_FAIL or TIME_EXPIRED,
\* TIME_EXPIRED only when the order has a confirmed_at more than
\* EDIT_WINDOW_SECONDS in the past, and the table is unchanged, while the
\* request is processed and after it.
C3_TerminalStateFailsOrExpires ==
    /\ (Finalized /\ LastTargetExists /\ LastTarget.state \in Terminal) =>
            /\ last.code \in {"MOD_FAIL", "TIME_EXPIRED"}
            /\ last.code = "TIME_EXPIRED" =>
                    /\ LastTarget.confirmed_at # None
                    /\ now > (LastTarget.confirmed_at[1] + EDIT_WINDOW_SECONDS) * 1000
            /\ LastTarget = last.pre[last.order_id]
    /\ (ev.order_id \in DOMAIN orders /\ Target.state \in Terminal) => orders = pre

C3_Witness ==
    /\ Finalized
    /\ LastTargetExists
    /\ LastTarget.state \in Terminal
    /\ last.code = "TIME_EXPIRED"
    /\ last.calls > 0

\* C4 (as claimed): a request with a non-empty change set whose call was
\* rejected because the order is missing, unconfirmed or in state
\* cancelled/cooking/done made exactly one call of apply_modification_atomic
\* and slept no backoff.
C4_NoRetryOnRejection ==
    (/\ Finalized
     /\ last.calls > 0
     /\ DOMAIN last.changes # {}
     /\ \/ ~LastTargetExists
        \/ LastTarget.confirmed_at = None
        \/ LastTarget.state \in Terminal)
    => (last.calls = 1 /\ last.sleeps = <<>>)

\* C5 (as claimed): a call that cannot get exclusive access counts as a
\* failed attempt, the worker goes on to its backoff sleep, and a request
\* finalized after MAX_RETRIES calls has slept 250, 500 and 1000 ms and
\* ends MOD_FAIL.
C5_ContentionIsRetried ==
    [][/\ (pc = "begin" /\ dbLock = "other" /\ pc' # "begin") =>
            (pc' = "sleep" /\ calls' = calls + 1)
       /\ (last' # last /\ last'.calls = MAX_RETRIES /\ Len(last'.sleeps) = MAX_RETRIES) =>
            (/\ last'.sleeps = <<INITIAL_BACKOFF_MS, 2 * INITIAL_BACKOFF_MS,
                                 4 * INITIAL_BACKOFF_MS>>
             /\ last'.code = "MOD_FAIL")]_vars

\* C6 (as claimed): no failure met while processing a request ends the
\* worker thread: the thread leaves its loop only through the sentinel.
C6_WorkerSurvivesFailures ==
    pc # "crashed"

\* C7 (as claimed): every request that left the queue is being processed by
\* the live worker or has been finalized, and none is finalized twice.
C7_PoppedIsFinalizedOnce ==
    \A r \in 1..nextReq :
        /\ log[r] <= 1
        /\ (\A i \in DOMAIN pq : pq[i].req_id # r) =>
                \/ log[r] = 1
                \/ ev.req_id = r /\ pc \notin {"crashed", "exited"}

\* C8: all or nothing.  Once apply_modification_atomic has returned True
\* every field of the change set is in the committed row; until then, and
\* so while its transaction is open or after it returned False, the
\* committed table, which is what readers see, is as it was.
C8_AllOrNothing ==
    /\ pc \in {"kitchen", "client"} =>
            \A f \in DOMAIN changes : Target[f] = changes[f][1]
    /\ pc \in {"begin", "tx", "commit", "fetch", "sleep", "crashed"} => orders = pre

C8_Witness ==
    /\ pc = "kitchen"
    /\ Cardinality(DOMAIN changes) > 1
    /\ orders # pre

\* C9: a successful call leaves state, confirmed_at, created_at and every
\* field outside the change set as they were, and no other order changes.
C9_FrameOfUpdate ==
    pc \in {"kitchen", "client"} =>
        /\ DOMAIN orders = DOMAIN pre
        /\ \A i \in DOMAIN orders : i # ev.order_id => orders[i] = pre[i]
        /\ \A f \in DOMAIN Target : f \notin DOMAIN changes => Target[f] = pre[ev.order_id][f]

C9_Witness ==
    /\ pc = "kitchen"
    /\ DOMAIN changes = {"qty"}
    /\ Target.qty # pre[ev.order_id].qty

\* C10: a request whose update was applied and for which a sink raised ends
\* SYNC_FAIL, and the committed row still carries the new values when the
\* request has been finalized.
C10_SinkFailureKeepsUpdate ==
    /\ (Finalized /\ \E k \in DOMAIN last.sinkCalls : last.sinkCalls[k].raised) =>
            last.code = "SYNC_FAIL"
    /\ (Finalized /\ pc = "idle" /\ last.code = "SYNC_FAIL") =>
            \A f \in DOMAIN last.changes : LastTarget[f] = last.changes[f][1]

C10_Witness ==
    /\ Finalized
    /\ pc = "idle"
    /\ last.code = "SYNC_FAIL"
    /\ LastTarget # last.pre[last.order_id]

\* C11: once a call has returned True the worker is at the notifications;
\* the kitchen sink is invoked first and the client sink second, each exactly
\* once, with the request's order id and the applied change set, and the
\* client sink is invoked whether or not the kitchen sink raised.
C11_KitchenThenClient ==
    LET SinkCall(c, name, id, ch) ==
            c.sink = name /\ c.order_id = id /\ c.changes = ch
    IN  /\ applied => pc \in {"kitchen", "client"}
        /\ pc = "kitchen" => sinkCalls = <<>>
        /\ pc = "client" =>
                /\ Len(sinkCalls) = 1
                /\ SinkCall(sinkCalls[1], "kitchen", ev.order_id, changes)
        /\ (Finalized /\ last.applied) =>
                /\ Len(last.sinkCalls) = 2
                /\ SinkCall(last.sinkCalls[1], "kitchen", last.order_id, last.changes)
                /\ SinkCall(last.sinkCalls[2], "client", last.order_id, last.changes)

C11_Witness ==
    /\ Finalized
    /\ last.applied
    /\ Len(last.sinkCalls) = 2
    /\ last.sinkCalls[1].raised
    /\ ~last.sinkCalls[2].raised

\* C12: a finalized request has outcome MOD_OK or SYNC_FAIL exactly when a
\* call committed its UPDATE; SYNC_FAIL exactly when moreover a sink raised,
\* MOD_OK exactly when moreover both sinks returned; a sink is invoked only
\* for a request whose update was applied, so never for one that ends
\* MOD_FAIL or TIME_EXPIRED.
C12_OutcomeIffApplied ==
    LET Raised(calls_) == \E k \in DOMAIN calls_ : calls_[k].raised IN
    /\ sinkCalls # <<>> => applied
    /\ Finalized =>
            /\ last.code \in {"MOD_OK", "SYNC_FAIL"} <=> last.applied
            /\ last.code = "SYNC_FAIL" <=> (last.applied /\ Raised(last.sinkCalls))
            /\ last.code = "MOD_OK" <=>
                    (last.applied /\ Len(last.sinkCalls) = 2 /\ ~Raised(last.sinkCalls))
            /\ last.sinkCalls # <<>> => last.applied
            /\ last.code \in {"MOD_FAIL", "TIME_EXPIRED"} => last.sinkCalls = <<>>

C12_Witness ==
    /\ Finalized
    /\ last.applied
    /\ last.code = "SYNC_FAIL"
    /\ ~last.sinkCalls[1].raised
    /\ last.sinkCalls[2].raised

\* C13: a request whose change set holds a product, a size or a payment
\* method outside its closed set never reaches the store or a sink: the
\* worker is at no position past the local checks with such a change set,
\* and the request is finalized MOD_FAIL with no call of
\* apply_modification_atomic, no sleep, no sink call and the table as it was.
C13_InvalidValueIsLocal ==
    LET OutOfSet(ch) ==
            \/ "product" \in DOMAIN ch /\
                    ch["product"][1] \notin {<<"pepperoni">>, <<"hawaiana">>}
            \/ "size" \in DOMAIN ch /\
                    ch["size"][1] \notin {<<"personal">>, <<"mediana">>, <<"grande">>}
            \/ "payment_method" \in DOMAIN ch /\
                    ch["payment_method"][1] \notin
                        {<<"efectivo">>, <<"tarjeta">>, <<"transferencia">>}
    IN  /\ pc \notin {"idle", "exited"} => ~OutOfSet(changes)
        /\ (Finalized /\ OutOfSet(last.changes)) =>
                /\ last.code = "MOD_FAIL"
                /\ last.calls = 0
                /\ last.sleeps = <<>>
                /\ last.sinkCalls = <<>>
                /\ ~last.applied
                /\ pc = "idle" => orders = last.pre

C13_Witness ==
    /\ Finalized
    /\ last.reason = "invalid_payment"
    /\ "size" \notin DOMAIN last.changes
    /\ metrics["MOD_OK"] = 1

\* the latest get: whether it returned, the event it returned, the other
\* events that were queued, and positions in the order of the puts
Returned == lastPop.item # None
PopItem == lastPop.item[1]
Waiting == {lastPop.before[k] : k \in DOMAIN lastPop.before} \ {PopItem}
PushPos(id) == CHOOSE k \in DOMAIN pushed : pushed[k] = id

\* C14 (as claimed): a get made while the queue holds an urgent and a
\* non-urgent event returns an urgent one, whatever the order of the puts
\* and the quantities.
C14_UrgentFirst ==
    (/\ \E k \in DOMAIN lastPop.before : lastPop.before[k].urgent
     /\ \E k \in DOMAIN lastPop.before : ~lastPop.before[k].urgent)
    => (Returned /\ PopItem.urgent)

\* C15 (as claimed): the event a get returns has, among the queued events
\* of its urgency that state a quantity, the smallest quantity, and an event
\* without a quantity is returned only when no queued event of its urgency
\* states one, however large that quantity is.
C15_SmallerQtyFirst ==
    Returned =>
        \A f \in Waiting :
            f.urgent = PopItem.urgent =>
                /\ (PopItem.new_qty # None /\ f.new_qty # None) =>
                        PopItem.new_qty[1] <= f.new_qty[1]
                /\ PopItem.new_qty = None => f.new_qty = None

\* C16 (as claimed): of the queued events with the sort_index of the event
\* a get returns, the returned one was put first.
C16_FifoAmongEqualKeys ==
    Returned =>
        \A f \in Waiting :
            f.sort_index = PopItem.sort_index =>
                PushPos(PopItem.req_id) < PushPos(f.req_id)

\* C17 (as claimed): the events get has returned and the events in the
\* queue are exactly the events put, each once.
C17_NoLossNoDuplication ==
    LET queued == {pq[k].req_id : k \in DOMAIN pq}
        got == {popped[k] : k \in DOMAIN popped}
    IN  /\ got \cup queued = {pushed[k] : k \in DOMAIN pushed}
        /\ got \cap queued = {}
        /\ Cardinality(got) = Len(popped)
        /\ Cardinality(queued) = Len(pq)

\* C18 (as claimed): a request retried while the edit window of its order
\* elapsed during one of its backoff sleeps is finalized TIME_EXPIRED, and
\* the table is as it was when the request was popped.
C18_ExpiryDuringBackoff ==
    /\ expiredAsleep => orders = pre
    /\ (Finalized /\ last.expiredAsleep) =>
            /\ last.code = "TIME_EXPIRED"
            /\ ~last.applied
            /\ pc = "idle" => orders = last.pre

\* C18 (amended): such a request is finalized TIME_EXPIRED when an attempt
\* follows the sleep in which the window elapsed, that is after the first or
\* the second failed attempt; when the window elapses only during the sleep
\* after the MAX_RETRIES-th attempt no check follows and the request is
\* finalized MOD_FAIL.  In both cases the table is as it was when the
\* request was popped.
C18_ExpiryDuringBackoffUnlessLast ==
    /\ expiredAsleep => (orders = pre /\ pc \in {"begin", "tx", "fetch", "crashed"})
    /\ (Finalized /\ last.expiredAsleep) =>
            /\ last.code \in {"TIME_EXPIRED", "MOD_FAIL"}
            /\ last.code = "TIME_EXPIRED" <=>
                    (last.lateCall /\ Len(last.sleeps) < MAX_RETRIES)
            /\ last.code = "MOD_FAIL" <=>
                    (~last.lateCall /\ last.calls = MAX_RETRIES
                        /\ Len(last.sleeps) = MAX_RETRIES)
            /\ ~last.applied
            /\ pc = "idle" => orders = last.pre

C18_Witness ==
    /\ Finalized
    /\ last.expiredAsleep
    /\ last.code = "TIME_EXPIRED"
    /\ last.calls = 2

\* a finalized request for an order that was in state 'confirmed' with a
\* confirmed_at when the request was popped, whose change set passed the
\* local checks and is not empty, and for which no sink raised
LastOnConfirmed ==
    /\ Finalized
    /\ last.order_id \in DOMAIN last.pre
    /\ last.pre[last.order_id].state = "confirmed"
    /\ last.pre[last.order_id].confirmed_at # None
    /\ last.calls > 0
    /\ DOMAIN last.changes # {}
    /\ \A k \in DOMAIN last.sinkCalls : ~last.sinkCalls[k].raised

\* C19: such a request, whose call found the lock free, ends MOD_OK with
\* the requested values stored when the call was made at most
\* EDIT_WINDOW_SECONDS after confirmed_at, the boundary included, and ends
\* TIME_EXPIRED with the row unchanged when the call was made later.
C19_WindowBoundary ==
    LastOnConfirmed =>
        /\ last.calls = 1
        /\ ~last.lateCall =>
                /\ last.code = "MOD_OK"
                /\ pc = "idle" =>
                        \A f \in DOMAIN last.changes : LastTarget[f] = last.changes[f][1]
        /\ last.lateCall =>
                /\ last.code = "TIME_EXPIRED"
                /\ pc = "idle" => LastTarget = last.pre[last.order_id]

C19_Witness ==
    /\ LastOnConfirmed
    /\ pc = "idle"
    /\ last.code = "MOD_OK"
    /\ now = (LastTarget.confirmed_at[1] + EDIT_WINDOW_SECONDS) * 1000
    /\ LastTarget.qty # last.pre[last.order_id].qty

\* C20: a request of that kind whose values are already the stored ones,
\* as when the change set is submitted again after it was applied, is
\* applied again while the window is open, ends MOD_OK, and leaves the row
\* as the earlier application left it.
C20_Idempotent ==
    (/\ LastOnConfirmed
     /\ ~last.lateCall
     /\ \A f \in DOMAIN last.changes :
            last.pre[last.order_id][f] = last.changes[f][1])
    => /\ last.applied
       /\ last.code = "MOD_OK"
       /\ pc = "idle" => orders = last.pre

C20_Witness ==
    /\ LastOnConfirmed
    /\ pc = "idle"
    /\ metrics["MOD_OK"] = 2
    /\ last.applied
    /\ DOMAIN last.changes = {"product", "qty"}
    /\ \A f \in DOMAIN last.changes : last.pre[last.order_id][f] = last.changes[f][1]
    /\ orders = last.pre

\* C21: after k finalized requests avg_latency_ms is the arithmetic mean of
\* the k latencies recorded so far; after the first request it is that
\* request's latency
C21_RunningMean ==
    metrics["processed"] > 0 =>
        FracEq(metrics["avg_latency_ms"], <<recorded, metrics["processed"]>>)

\* line 366 passes self.metrics, the dict the worker keeps updating, and no
\* copy of it: what the observer reads through the object it received at
\* the call recorded in handed[k] is, in every later state, the current
\* contents of the dict
SeenThrough(k) == metrics

\* C22: the values seen through a snapshot handed to the observer stay those
\* of the request it was delivered for, whatever the worker finalizes later
C22_SnapshotImmutable ==
    \A k \in DOMAIN handed : SeenThrough(k) = handed[k]

IsSentinel(e) == e.order_id = -1 /\ e.req_id \in SentinelReqInputs

SentinelPopped == \E k \in DOMAIN popped : popped[k] \in SentinelReqInputs

\* C23: when get returns the sentinel the worker leaves its loop, from then
\* on no request is popped, no store access, notification or metrics record
\* is made, and a request popped while the sentinel was queued is one that
\* sorts before it
C23_SentinelEndsProcessing ==
    [][/\ (SentinelPopped' /\ ~SentinelPopped) => pc' = "exited"
       /\ SentinelPopped =>
            /\ pc = "exited"
            /\ UNCHANGED <<pc, popped, orders, pending, dbLock, calls, sinkCalls,
                           metrics, log, handed>>
       /\ \A i \in DOMAIN lastPop'.before :
            (/\ lastPop' # lastPop
             /\ IsSentinel(lastPop'.before[i])
             /\ lastPop'.item # None
             /\ ~IsSentinel(lastPop'.item[1]))
            => Lt(lastPop'.item[1], lastPop'.before[i]) = "lt"]_vars

\* the sentinel was popped after a request had been finalized, with a
\* request still queued behind it
C23_Witness ==
    /\ SentinelPopped
    /\ metrics["processed"] = 1
    /\ \E i \in DOMAIN pq : pq[i].order_id = 1 /\ log[pq[i].req_id] = 0

\* C24: once an order's confirmed_at is set, no confirm_order call and no
\* processed modification request changes it
C24_ConfirmedAtSetOnce ==
    [][\A i \in DOMAIN orders :
            orders[i].confirmed_at # None
            => orders'[i].confirmed_at = orders[i].confirmed_at]_vars

\* C25: the order of ModEvent is total on the events producers put: no
\* comparison of two queued events raises, and no get has raised
C25_OrderIsTotal ==
    /\ ~lastPop.raised
    /\ \A i, j \in DOMAIN pq : i # j => Lt(pq[i], pq[j]) # "TypeError"

\* C26: the worker has left its loop only if stop() was called, and every
\* request of a producer that get returned has an outcome once the worker is
\* back at the head of its loop or has left it
C26_ExitOnlyByStop ==
    /\ pc = "exited" => stop_set
    /\ pc \in {"idle", "get", "exited"} =>
            \A k \in DOMAIN popped :
                popped[k] \in 1..MaxEvents => log[popped[k]] = 1

Terminated == pc \in {"exited", "crashed"}

\* C27: once the stop flag is set the worker thread eventually terminates,
\* whatever is queued, and get returns at most one further request to it
C27_StopTerminates ==
    /\ [](afterStop <= 1)
    /\ stop_set ~> Terminated

\* a request that sorts before the sentinel was taken after the flag was
\* set, and the worker has ended with the sentinel still queued
C27_Witness ==
    /\ stop_set
    /\ afterStop = 1
    /\ pc = "exited"
    /\ \E i \in DOMAIN pq : IsSentinel(pq[i])
    /\ metrics["processed"] >= 1

\* C28: a finalized request with an empty change set for an order that is
\* confirmed and still inside its edit window ended MOD_FAIL after one call of
\* apply_modification_atomic and no backoff sleep, left the table as it was
\* and called no sink
C28_EmptyChangeSetRejectedOnce ==
    (/\ Finalized
     /\ DOMAIN last.changes = {}
     /\ LastTargetExists
     /\ last.pre[last.order_id].state = "confirmed"
     /\ last.pre[last.order_id].confirmed_at # None
     /\ ~CalledLate(last.pre, last.order_id, now))
    => (/\ last.code = "MOD_FAIL"
        /\ last.calls = 1
        /\ last.sleeps = <<>>
        /\ orders = last.pre
        /\ last.sinkCalls = <<>>)

\* C29: every stored order passes the intake rules of validate_dto, as the
\* rows did at the start, whatever requests have been processed
C29_RowsStayValid ==
    \A i \in DOMAIN orders : validate_dto(orders[i]) = "ok"

CounterSum(m) == m["MOD_OK"] + m["TIME_EXPIRED"] + m["SYNC_FAIL"] + m["MOD_FAIL"]

\* C30: in every state, and in the values the observer was called with,
\* processed is the sum of the four outcome counters; no counter ever
\* decreases; and each _finish adds exactly 1 to processed and to exactly
\* one outcome counter, the one of the request's outcome
C30_CountersAddUp ==
    [][/\ metrics'["processed"] = CounterSum(metrics')
       /\ \A k \in DOMAIN handed' : handed'[k]["processed"] = CounterSum(handed'[k])
       /\ \A c \in Codes \cup {"processed"} : metrics'[c] >= metrics[c]
       /\ (last' # last \/ log' # log \/ metrics' # metrics) =>
            /\ log' # log
            /\ handed'[Len(handed')] = metrics'
            /\ metrics'["processed"] = metrics["processed"] + 1
            /\ metrics'[last'.code] = metrics[last'.code] + 1
            /\ \A c \in Codes \ {last'.code} : metrics'[c] = metrics[c]]_vars

\* two requests were finalized with different outcomes
C30_Witness ==
    /\ Len(handed) = 2
    /\ metrics["MOD_OK"] = 1
    /\ metrics["MOD_FAIL"] = 1
    /\ metrics["processed"] = 2

====
